---- MODULE Spec2Model ----
(***************************************************************************)
(* Zebra puzzle solver: the constraint library (constraints.py), the       *)
(* solving engine (zebra_solver.py) and the scripts that build and solve   *)
(* puzzles (example_puzzle.py, einstein_puzzle.py).                        *)
(*                                                                         *)
(* A Python dict is modelled with its insertion order: assignment[c] is    *)
(* the sequence of <<position, value>> items of the inner dict in the      *)
(* order they were inserted; a category is "in" the assignment iff that    *)
(* sequence is not empty (the code creates the inner dict only to put an   *)
(* item in it).  A Python set of labels has no specified iteration order   *)
(* (string hashing is randomised per interpreter process): hashOrder[c]    *)
(* is the order in which the labels of category c come out of a set in     *)
(* the current process, drawn when a set of that category is first         *)
(* iterated.                                                               *)
(***************************************************************************)
EXTENDS Integers, Sequences, FiniteSets, TLC

VARIABLES script, pc, num_positions, categories, constraints,
          hashOrder, stack, ret, result, runs, prev

vars == <<script, pc, num_positions, categories, constraints,
          hashOrder, stack, ret, result, runs, prev>>

\* ------------------------------------------------------------------ bounds
\* Clues a generated script registers at most.
MaxClues == 2
\* solve() calls made on one puzzle, each in a fresh interpreter process.
MaxRuns == 2
\* Label sets up to this size are iterated in every possible order; larger
\* ones in the declared order or its reverse.
MaxPermuted == 3

\* ----------------------------------------------------------------- helpers
Range(s) == {s[i] : i \in DOMAIN s}

Reverse(s) == [i \in 1..Len(s) |-> s[Len(s) + 1 - i]]

Perms(S) == {f \in [1..Cardinality(S) -> S] : \A v \in S : \E i \in DOMAIN f : f[i] = v}

Min(S) == CHOOSE x \in S : \A y \in S : x <= y

Max(S) == CHOOSE x \in S : \A y \in S : x >= y

Abs(x) == IF x < 0 THEN -x ELSE x

\* None, as the position of a value that is not assigned.
NoPos == -1

\* ------------------------------------------------------- assignment (dict)
\* `category in assignment`
InAssignment(assignment, category) ==
    /\ category \in DOMAIN assignment
    /\ assignment[category] # <<>>

\* assignment[category].keys()
Keys(assignment, category) ==
    {assignment[category][i][1] : i \in DOMAIN assignment[category]}

\* assignment[category][position]
ValueAt(assignment, category, position) ==
    LET items == assignment[category]
        i == CHOOSE j \in DOMAIN items : items[j][1] = position
    IN  items[i][2]

\* The loop `for pos, val in assignment[category].items(): if val == value:
\* pos = ...; break` behind `if category in assignment`: the position of the
\* first item holding value, None when there is none.
FindPos(assignment, category, value) ==
    IF ~InAssignment(assignment, category) THEN NoPos
    ELSE LET items == assignment[category]
             hits == {i \in DOMAIN items : items[i][2] = value}
         IN  IF hits = {} THEN NoPos ELSE items[Min(hits)][1]

\* ------------------------------------------------------ constraint library
\* A predicate closure is the record of the variables it captured.
Closure(kind, category1, value1, category2, value2, position, edge, positions) ==
    [kind |-> kind, category1 |-> category1, value1 |-> value1,
     category2 |-> category2, value2 |-> value2,
     position |-> position, edge |-> edge, positions |-> positions]

same_position(category1, value1, category2, value2) ==
    Closure("same_position", category1, value1, category2, value2, NoPos, "", {})

adjacent(category1, value1, category2, value2) ==
    Closure("adjacent", category1, value1, category2, value2, NoPos, "", {})

left_of(category1, value1, category2, value2) ==
    Closure("left_of", category1, value1, category2, value2, NoPos, "", {})

\* Variant of immediately_right_of with the two values swapped.
immediately_right_of_swapped(category1, value1, category2, value2) ==
    Closure("immediately_right_of", category2, value2, category1, value1, NoPos, "", {})

immediately_right_of(category1, value1, category2, value2) ==
    Closure("immediately_right_of", category1, value1, category2, value2, NoPos, "", {})

at_position(category, value, position) ==
    Closure("at_position", category, value, "", "", position, "", {})

\* The factory checks nothing: edge is only looked at inside the predicate.
at_edge(category, value, edge) ==
    Closure("at_edge", category, value, "", "", NoPos, edge, {})

\* `if num_positions % 2 == 0: raise ValueError`, at the factory call.
middle_position_raises(n) == n % 2 = 0

\* Variant of middle_position with middle = (num_positions + 1) // 2.
middle_position_rounded_up(category, value, n) ==
    Closure("middle_position", category, value, "", "", (n + 1) \div 2, "", {})

\* The closure captures middle = num_positions // 2.
middle_position(category, value, n) ==
    Closure("middle_position", category, value, "", "", n \div 2, "", {})

one_of_positions(category, value, positions) ==
    Closure("one_of_positions", category, value, "", "", NoPos, "", positions)

not_same_position(category1, value1, category2, value2) ==
    Closure("not_same_position", category1, value1, category2, value2, NoPos, "", {})

\* Variant of the two-value predicates that rejects when exactly one of the
\* two values is assigned.
PairHoldsClosedWorld(c, assignment) ==
    LET pos1 == FindPos(assignment, c.category1, c.value1)
        pos2 == FindPos(assignment, c.category2, c.value2)
    IN  IF pos1 # NoPos /\ pos2 # NoPos
        THEN CASE c.kind = "same_position" -> pos1 = pos2
               [] c.kind = "adjacent" -> Abs(pos1 - pos2) = 1
               [] c.kind = "left_of" -> pos1 < pos2
               [] c.kind = "immediately_right_of" -> pos1 = pos2 + 1
               [] c.kind = "not_same_position" -> pos1 # pos2
        ELSE pos1 = NoPos /\ pos2 = NoPos

\* The two-value predicates: both positions looked up, the relation tested
\* only when both are assigned.
PairHolds(c, assignment) ==
    LET pos1 == FindPos(assignment, c.category1, c.value1)
        pos2 == FindPos(assignment, c.category2, c.value2)
    IN  IF pos1 # NoPos /\ pos2 # NoPos
        THEN CASE c.kind = "same_position" -> pos1 = pos2
               [] c.kind = "adjacent" -> Abs(pos1 - pos2) = 1
               [] c.kind = "left_of" -> pos1 < pos2
               [] c.kind = "immediately_right_of" -> pos1 = pos2 + 1
               [] c.kind = "not_same_position" -> pos1 # pos2
        ELSE TRUE

\* Variant of at_position's predicate that accepts the value anywhere up to
\* the target position.
at_position_holds_at_most(c, assignment) ==
    IF ~InAssignment(assignment, c.category1) THEN TRUE
    ELSE LET pos == FindPos(assignment, c.category1, c.value1)
         IN  IF pos # NoPos THEN pos <= c.position ELSE TRUE

at_position_holds(c, assignment) ==
    IF ~InAssignment(assignment, c.category1) THEN TRUE
    ELSE LET pos == FindPos(assignment, c.category1, c.value1)
         IN  IF pos # NoPos THEN pos = c.position
             ELSE IF c.position \in Keys(assignment, c.category1)
                  THEN \/ ValueAt(assignment, c.category1, c.position) # c.value1
                       \/ ValueAt(assignment, c.category1, c.position) = c.value1
                  ELSE TRUE

\* at_edge's predicate: "True", "False" or "ValueError".  The number of
\* positions is taken from the assignment: the largest assigned key plus one.
at_edge_call(c, assignment) ==
    IF ~InAssignment(assignment, c.category1) THEN "True"
    ELSE LET pos == FindPos(assignment, c.category1, c.value1)
             n == Max(Keys(assignment, c.category1)) + 1
         IN  IF pos = NoPos THEN "True"
             ELSE IF c.edge = "first" THEN (IF pos = 0 THEN "True" ELSE "False")
             ELSE IF c.edge = "last" THEN (IF pos = n - 1 THEN "True" ELSE "False")
             ELSE IF c.edge = "either"
                  THEN (IF pos = 0 \/ pos = n - 1 THEN "True" ELSE "False")
             ELSE "ValueError"

\* Variant of middle_position's predicate without the None test.
middle_position_holds_strict(c, assignment) ==
    FindPos(assignment, c.category1, c.value1) = c.position

middle_position_holds(c, assignment) ==
    LET pos == FindPos(assignment, c.category1, c.value1)
    IN  IF pos # NoPos THEN pos = c.position ELSE TRUE

one_of_positions_holds(c, assignment) ==
    LET pos == FindPos(assignment, c.category1, c.value1)
    IN  IF pos # NoPos THEN pos \in c.positions ELSE TRUE

\* constraint['func'](assignment): "True", "False", or "ValueError" raised.
CallPredicate(c, assignment) ==
    LET b(x) == IF x THEN "True" ELSE "False"
    IN  CASE c.kind = "at_position" -> b(at_position_holds(c, assignment))
          [] c.kind = "at_edge" -> at_edge_call(c, assignment)
          [] c.kind = "middle_position" -> b(middle_position_holds(c, assignment))
          [] c.kind = "one_of_positions" -> b(one_of_positions_holds(c, assignment))
          [] OTHER -> b(PairHolds(c, assignment))

\* ------------------------------------------------------------ factory calls
\* A call of a factory as a script writes it: the factory's name and its
\* arguments.
Call(factory, category1, value1, category2, value2, position, edge, positions) ==
    [factory |-> factory, category1 |-> category1, value1 |-> value1,
     category2 |-> category2, value2 |-> value2,
     position |-> position, edge |-> edge, positions |-> positions]

CallPair(factory, category1, value1, category2, value2) ==
    Call(factory, category1, value1, category2, value2, NoPos, "", {})

CallAtPosition(category, value, position) ==
    Call("at_position", category, value, "", "", position, "", {})

CallAtEdge(category, value, edge) ==
    Call("at_edge", category, value, "", "", NoPos, edge, {})

\* position carries the num_positions argument.
CallMiddle(category, value, n) ==
    Call("middle_position", category, value, "", "", n, "", {})

CallOneOf(category, value, positions) ==
    Call("one_of_positions", category, value, "", "", NoPos, "", positions)

\* The call raises ValueError instead of returning a predicate.
FactoryRaises(call) ==
    call.factory = "middle_position" /\ middle_position_raises(call.position)

\* The predicate the call returns.
FactoryResult(call) ==
    CASE call.factory = "same_position" ->
            same_position(call.category1, call.value1, call.category2, call.value2)
      [] call.factory = "adjacent" ->
            adjacent(call.category1, call.value1, call.category2, call.value2)
      [] call.factory = "left_of" ->
            left_of(call.category1, call.value1, call.category2, call.value2)
      [] call.factory = "immediately_right_of" ->
            immediately_right_of(call.category1, call.value1, call.category2, call.value2)
      [] call.factory = "not_same_position" ->
            not_same_position(call.category1, call.value1, call.category2, call.value2)
      [] call.factory = "at_position" ->
            at_position(call.category1, call.value1, call.position)
      [] call.factory = "at_edge" ->
            at_edge(call.category1, call.value1, call.edge)
      [] call.factory = "middle_position" ->
            middle_position(call.category1, call.value1, call.position)
      [] call.factory = "one_of_positions" ->
            one_of_positions(call.category1, call.value1, call.positions)

\* ------------------------------------------------------------------ engine
\* The categories dict: its keys in insertion order and the value lists.
Categories(names, values) == [names |-> names, values |-> values]

NoCategories == Categories(<<>>, <<>>)

\* Variant of the validation that only rejects lists that are too long.
LengthMismatchTooLongOnly(n, cats) ==
    \E i \in DOMAIN cats.names : Len(cats.values[cats.names[i]]) > n

\* __init__'s validation loop: some category's list has the wrong length.
LengthMismatch(n, cats) ==
    \E i \in DOMAIN cats.names : Len(cats.values[cats.names[i]]) # n

Positions(n) == 0..(n - 1)

EmptyAssignment(cats) == [c \in Range(cats.names) |-> <<>>]

\* solve(): domains[category] = {pos: set(values) for pos in range(n)}
InitialDomains(n, cats) ==
    [c \in Range(cats.names) |-> [pos \in Positions(n) |-> Range(cats.values[c])]]

\* Variant of _is_complete without the length test.
IsCompleteNoLength(n, cats, assignment) ==
    \A i \in DOMAIN cats.names : InAssignment(assignment, cats.names[i])

\* _is_complete
IsComplete(n, cats, assignment) ==
    \A i \in DOMAIN cats.names :
        /\ InAssignment(assignment, cats.names[i])
        /\ Len(assignment[cats.names[i]]) = n

\* _is_consistent: the predicates in registration order; the first that
\* returns False ends the loop, the first that raises ends solve().
RECURSIVE ConsistentFrom(_, _, _)
ConsistentFrom(cons, i, assignment) ==
    IF i > Len(cons) THEN "True"
    ELSE LET r == CallPredicate(cons[i], assignment)
         IN  IF r = "True" THEN ConsistentFrom(cons, i + 1, assignment) ELSE r

\* Variant of _is_consistent that skips the first registered predicate.
IsConsistentSkipFirst(cons, assignment) == ConsistentFrom(cons, 2, assignment)

IsConsistent(cons, assignment) == ConsistentFrom(cons, 1, assignment)

\* Variant of the extension that starts the category's dict afresh:
\* new_assignment[category] = {position: value}.
ExtendReplacingCategory(assignment, category, position, value) ==
    [assignment EXCEPT ![category] = <<<<position, value>>>>]

\* new_assignment[category][position] = value, on a deep copy.
Extend(assignment, category, position, value) ==
    LET items == assignment[category]
        at == {i \in DOMAIN items : items[i][1] = position}
    IN  IF at = {}
        THEN [assignment EXCEPT ![category] = Append(items, <<position, value>>)]
        ELSE [assignment EXCEPT ![category] =
                 [i \in DOMAIN items |-> IF i \in at THEN <<position, value>> ELSE items[i]]]

NoVar == <<"", NoPos>>

\* Variant of _select_unassigned_variable that replaces best on a domain
\* that is smaller or equally small.
RECURSIVE SelectFromLastMinimum(_, _, _, _, _, _)
SelectFromLastMinimum(n, cats, assignment, domains, k, best) ==
    IF n = 0 \/ k >= Len(cats.names) * n THEN best
    ELSE LET category == cats.names[(k \div n) + 1]
             position == k % n
             assigned == /\ InAssignment(assignment, category)
                         /\ position \in Keys(assignment, category)
             remaining == Cardinality(domains[category][position])
             better == \/ best = NoVar
                       \/ remaining <= Cardinality(domains[best[1]][best[2]])
         IN  SelectFromLastMinimum(n, cats, assignment, domains, k + 1,
                        IF ~assigned /\ better THEN <<category, position>> ELSE best)

\* _select_unassigned_variable: k runs over (category, position) in the
\* order of the two nested loops; best is replaced on a strictly smaller
\* domain only.  best = NoVar stands for min_remaining = inf.
RECURSIVE SelectFrom(_, _, _, _, _, _)
SelectFrom(n, cats, assignment, domains, k, best) ==
    IF n = 0 \/ k >= Len(cats.names) * n THEN best
    ELSE LET category == cats.names[(k \div n) + 1]
             position == k % n
             assigned == /\ InAssignment(assignment, category)
                         /\ position \in Keys(assignment, category)
             remaining == Cardinality(domains[category][position])
             better == \/ best = NoVar
                       \/ remaining < Cardinality(domains[best[1]][best[2]])
         IN  SelectFrom(n, cats, assignment, domains, k + 1,
                        IF ~assigned /\ better THEN <<category, position>> ELSE best)

SelectUnassignedVariable(n, cats, assignment, domains) ==
    SelectFrom(n, cats, assignment, domains, 0, NoVar)

\* Variant of _update_domains that leaves the other positions alone.
UpdateDomainsAssignOnly(n, domains, category, position, value) ==
    [domains EXCEPT ![category][position] = {value}]

\* Variant of _update_domains that refills the other positions with every
\* value still present somewhere in the category.
UpdateDomainsRefilled(n, domains, category, position, value) ==
    [domains EXCEPT ![category] =
        [pos \in DOMAIN domains[category] |->
            IF pos = position THEN {value}
            ELSE UNION {domains[category][q] : q \in DOMAIN domains[category]} \ {value}]]

\* _update_domains, on a deep copy of domains.
UpdateDomains(n, domains, category, position, value) ==
    [domains EXCEPT ![category] =
        [pos \in DOMAIN domains[category] |->
            IF pos = position THEN {value}
            ELSE IF pos \in Positions(n) THEN domains[category][pos] \ {value}
            ELSE domains[category][pos]]]

\* Propagation, one category (the rules never look across categories).
\* Singleton rule at positions p, p+1, ...: each position is tested on the
\* domains as the earlier positions left them.
RECURSIVE SingletonFrom(_, _, _)
SingletonFrom(n, d, p) ==
    IF p >= n THEN d
    ELSE IF Cardinality(d[p]) = 1
         THEN SingletonFrom(n, [q \in DOMAIN d |-> IF q # p THEN d[q] \ d[p] ELSE d[q]], p + 1)
         ELSE SingletonFrom(n, d, p + 1)

\* Variant of the unique-position rule that pins a value to its first
\* possible position even when it has several.
RECURSIVE UniqueFromFirstPossible(_, _, _, _)
UniqueFromFirstPossible(n, values, d, i) ==
    IF i > Len(values) THEN [wiped |-> FALSE, d |-> d]
    ELSE LET possible_positions == {pos \in Positions(n) : values[i] \in d[pos]}
         IN  IF possible_positions = {} THEN [wiped |-> TRUE, d |-> d]
             ELSE IF Cardinality(d[Min(possible_positions)]) > 1
                  THEN UniqueFromFirstPossible(n, values,
                           [d EXCEPT ![Min(possible_positions)] = {values[i]}], i + 1)
                  ELSE UniqueFromFirstPossible(n, values, d, i + 1)

\* Unique-position rule for the values i, i+1, ... of the category's list.
\* wiped: a value has no position left (return None).
RECURSIVE UniqueFrom(_, _, _, _)
UniqueFrom(n, values, d, i) ==
    IF i > Len(values) THEN [wiped |-> FALSE, d |-> d]
    ELSE LET possible_positions == {pos \in Positions(n) : values[i] \in d[pos]}
         IN  IF possible_positions = {} THEN [wiped |-> TRUE, d |-> d]
             ELSE IF Cardinality(possible_positions) = 1
                     /\ Cardinality(d[Min(possible_positions)]) > 1
                  THEN UniqueFrom(n, values,
                                  [d EXCEPT ![Min(possible_positions)] = {values[i]}], i + 1)
                  ELSE UniqueFrom(n, values, d, i + 1)

\* One pass of the while loop over all categories.
PropagatePass(n, cats, domains) ==
    LET single == [c \in DOMAIN domains |-> SingletonFrom(n, domains[c], 0)]
        unique == [c \in DOMAIN domains |-> UniqueFrom(n, cats.values[c], single[c], 1)]
    IN  IF \E c \in DOMAIN domains : \E pos \in DOMAIN domains[c] : domains[c][pos] = {}
        THEN [wiped |-> TRUE, d |-> domains]
        ELSE IF \E c \in DOMAIN domains : unique[c].wiped
             THEN [wiped |-> TRUE, d |-> domains]
             ELSE [wiped |-> FALSE, d |-> [c \in DOMAIN domains |-> unique[c].d]]

\* _propagate_constraints: passes until one changes nothing (the rules only
\* remove values, so `changed` is set iff the domains differ); wiped stands
\* for the None result.
RECURSIVE PropagateConstraints(_, _, _)
PropagateConstraints(n, cats, domains) ==
    LET r == PropagatePass(n, cats, domains)
    IN  IF r.wiped \/ r.d = domains THEN r
        ELSE PropagateConstraints(n, cats, r.d)

\* list(domains[category][position]): the set's labels in this process's
\* iteration order.
ListOf(order, set) == SelectSeq(order, LAMBDA v : v \in set)

\* The iteration orders a set of these labels may have.
HashOrders(labels) ==
    IF Cardinality(Range(labels)) <= MaxPermuted THEN Perms(Range(labels))
    ELSE {labels, Reverse(labels)}

\* ---------------------------------------------------------- query_solution
NotFound == [kind |-> "none", row |-> <<>>]

\* The cross-section at a position: a row, or KeyError when a category of
\* the solution has nothing at that position.
RowAt(assignment, position) ==
    LET present == {c \in DOMAIN assignment : assignment[c] # <<>>}
    IN  IF \E c \in present : position \notin Keys(assignment, c)
        THEN [kind |-> "KeyError", row |-> <<>>]
        ELSE [kind |-> "row", row |-> [c \in present |-> ValueAt(assignment, c, position)]]

\* Variant of query_solution that takes the item's index for its position.
QuerySolutionByIndex(solution, category, value) ==
    IF solution.kind # "assignment" \/ ~InAssignment(solution.assignment, category)
    THEN NotFound
    ELSE LET items == solution.assignment[category]
             hits == {i \in DOMAIN items : items[i][2] = value}
         IN  IF hits = {} THEN NotFound ELSE RowAt(solution.assignment, Min(hits))

\* query_solution(solution, category, value)
QuerySolution(solution, category, value) ==
    IF solution.kind # "assignment" \/ ~InAssignment(solution.assignment, category)
    THEN NotFound
    ELSE LET position == FindPos(solution.assignment, category, value)
         IN  IF position = NoPos THEN NotFound
             ELSE RowAt(solution.assignment, position)

\* ----------------------------------------------------------------- scripts
\* A script is a caller's program: ZebraPuzzle(num_positions, categories),
\* one add_constraint per clue, then solve().
Script(n, cats, clues) == [num_positions |-> n, categories |-> cats, clues |-> clues]

ExampleCategories ==
    Categories(<<"nationality", "color", "pet", "drink">>,
               ("nationality" :> <<"English", "Spanish", "Japanese">>)
            @@ ("color" :> <<"red", "green", "ivory">>)
            @@ ("pet" :> <<"dog", "snail", "fox">>)
            @@ ("drink" :> <<"coffee", "tea", "water">>))

ExampleClues ==
    << CallPair("same_position", "nationality", "English", "color", "red"),
       CallPair("same_position", "nationality", "Spanish", "pet", "dog"),
       CallPair("same_position", "drink", "coffee", "color", "green"),
       CallPair("immediately_right_of", "color", "green", "color", "red"),
       CallPair("adjacent", "pet", "snail", "drink", "tea"),
       CallPair("adjacent", "nationality", "Japanese", "pet", "snail") >>

create_example_puzzle == Script(3, ExampleCategories, ExampleClues)

\* The 3-house categories with English forced to position 0 and to position 1.
ContradictoryClues ==
    << CallAtPosition("nationality", "English", 0),
       CallAtPosition("nationality", "English", 1) >>

ContradictoryPuzzle == Script(3, ExampleCategories, ContradictoryClues)

ContradictoryExample == Script(3, ExampleCategories, ExampleClues \o ContradictoryClues)

EinsteinCategories ==
    Categories(<<"nationality", "color", "drink", "cigar", "pet">>,
               ("nationality" :> <<"Brit", "Swede", "Dane", "Norwegian", "German">>)
            @@ ("color" :> <<"red", "green", "white", "yellow", "blue">>)
            @@ ("drink" :> <<"tea", "coffee", "milk", "beer", "water">>)
            @@ ("cigar" :> <<"Pall Mall", "Dunhill", "Blends", "BlueMaster", "Prince">>)
            @@ ("pet" :> <<"dogs", "birds", "cats", "horse", "fish">>))

EinsteinClues ==
    << CallPair("same_position", "nationality", "Brit", "color", "red"),
       CallPair("same_position", "nationality", "Swede", "pet", "dogs"),
       CallPair("same_position", "nationality", "Dane", "drink", "tea"),
       CallPair("immediately_right_of", "color", "white", "color", "green"),
       CallPair("same_position", "color", "green", "drink", "coffee"),
       CallPair("same_position", "cigar", "Pall Mall", "pet", "birds"),
       CallPair("same_position", "color", "yellow", "cigar", "Dunhill"),
       CallMiddle("drink", "milk", 5),
       CallAtPosition("nationality", "Norwegian", 0),
       CallPair("adjacent", "cigar", "Blends", "pet", "cats"),
       CallPair("adjacent", "pet", "horse", "cigar", "Dunhill"),
       CallPair("same_position", "cigar", "BlueMaster", "drink", "beer"),
       CallPair("same_position", "nationality", "German", "cigar", "Prince"),
       CallPair("adjacent", "nationality", "Norwegian", "color", "blue"),
       CallPair("adjacent", "cigar", "Blends", "drink", "water") >>

create_einstein_puzzle == Script(5, EinsteinCategories, EinsteinClues)

\* Generated scripts: two small well-formed configurations, two whose
\* category k1 has a list of the wrong length, and clues of every factory.
SmallCategories ==
    Categories(<<"k1", "k2">>, ("k1" :> <<"a", "b">>) @@ ("k2" :> <<"x", "y">>))

MediumCategories == Categories(<<"k1">>, "k1" :> <<"a", "b", "c">>)

LongCategories == Categories(<<"k1">>, "k1" :> <<"a", "b", "c", "d">>)

ShortCategories ==
    Categories(<<"k1", "k2">>, ("k1" :> <<"a", "b">>) @@ ("k2" :> <<"x", "y", "z">>))

Configurations ==
    { <<2, SmallCategories>>, <<3, MediumCategories>>,
      <<3, LongCategories>>, <<3, ShortCategories>> }

CluePool ==
    { CallPair("same_position", "k1", "a", "k2", "x"),
      CallPair("adjacent", "k1", "a", "k1", "c"),
      CallPair("left_of", "k1", "b", "k1", "a"),
      CallPair("immediately_right_of", "k2", "x", "k1", "b"),
      CallPair("not_same_position", "k1", "a", "k2", "x"),
      CallAtPosition("k1", "a", 1),
      CallAtEdge("k1", "a", "last"),
      CallAtEdge("k1", "b", "either"),
      CallAtEdge("k2", "y", "first"),
      CallAtEdge("k2", "y", "middle"),
      CallMiddle("k1", "b", 3),
      CallMiddle("k1", "a", 2),
      CallOneOf("k1", "b", {0, 2}) }

ClueLists == UNION {[1..k -> CluePool] : k \in 0..MaxClues}

GeneratedScripts ==
    {Script(cfg[1], cfg[2], clues) : cfg \in Configurations, clues \in ClueLists}

ExampleScripts == {create_example_puzzle, ContradictoryPuzzle, ContradictoryExample}

\* ------------------------------------------------------------------- state
\* What a call returned: nothing yet, None, or an assignment.
Pending == [kind |-> "pending", assignment |-> <<>>]

None == [kind |-> "none", assignment |-> <<>>]

Returned(assignment) == [kind |-> "assignment", assignment |-> assignment]

\* A _backtrack frame: its two arguments and, once past the completeness
\* check, the selected variable and the candidates the for loop has left.
Frame(assignment, domains) ==
    [assignment |-> assignment, domains |-> domains,
     var |-> NoVar, cands |-> <<>>, entered |-> FALSE]

Top == stack[Len(stack)]

Pop == SubSeq(stack, 1, Len(stack) - 1)

SetTop(frame) == [stack EXCEPT ![Len(stack)] = frame]

InitScripts(scripts) ==
    /\ script \in scripts
    /\ pc = "start"
    /\ num_positions = 0
    /\ categories = NoCategories
    /\ constraints = <<>>
    /\ hashOrder = <<>>
    /\ stack = <<>>
    /\ ret = Pending
    /\ result = Pending
    /\ runs = 0
    /\ prev = Pending

\* ZebraPuzzle.__init__: ValueError when a category's list has the wrong
\* length, and then the caller gets no puzzle object.
Construct ==
    /\ pc = "start"
    /\ IF LengthMismatch(script.num_positions, script.categories)
       THEN /\ pc' = "config_error"
            /\ UNCHANGED <<num_positions, categories, constraints>>
       ELSE /\ pc' = "constructed"
            /\ num_positions' = script.num_positions
            /\ categories' = script.categories
            /\ constraints' = <<>>
    /\ UNCHANGED <<script, hashOrder, stack, ret, result, runs, prev>>

\* puzzle.add_constraint(factory(...)): the factory call, which may raise,
\* then the append.
AddConstraint ==
    /\ pc = "constructed"
    /\ runs = 0
    /\ Len(constraints) < Len(script.clues)
    /\ LET call == script.clues[Len(constraints) + 1]
       IN  IF FactoryRaises(call)
           THEN pc' = "config_error" /\ UNCHANGED constraints
           ELSE pc' = pc /\ constraints' = Append(constraints, FactoryResult(call))
    /\ UNCHANGED <<script, num_positions, categories, hashOrder, stack, ret,
                   result, runs, prev>>

\* solve() on a puzzle of n positions and categories cats, up to its call
\* of _backtrack({}, domains), in a fresh process.
SolveStart(n, cats) ==
    /\ runs' = runs + 1
    /\ prev' = result
    /\ hashOrder' = [c \in Range(cats.names) |-> <<>>]
    /\ ret' = Pending
    /\ LET r == PropagateConstraints(n, cats, InitialDomains(n, cats))
       IN  IF r.wiped
           THEN pc' = "done" /\ result' = None /\ stack' = <<>>
           ELSE /\ pc' = "solving"
                /\ result' = Pending
                /\ stack' = <<Frame(EmptyAssignment(cats), r.d)>>

\* The script's call of solve().
Solve ==
    /\ pc = "constructed"
    /\ Len(constraints) = Len(script.clues)
    /\ runs < MaxRuns
    /\ SolveStart(num_positions, categories)
    /\ UNCHANGED <<script, num_positions, categories, constraints>>

\* _backtrack, from its entry to the head of the for loop.
BacktrackEnter ==
    /\ pc = "solving"
    /\ ret = Pending
    /\ stack # <<>>
    /\ ~Top.entered
    /\ IF IsComplete(num_positions, categories, Top.assignment)
       THEN /\ ret' = Returned(Top.assignment)
            /\ stack' = Pop
            /\ UNCHANGED <<pc, hashOrder>>
       ELSE LET var == SelectUnassignedVariable(num_positions, categories,
                                                Top.assignment, Top.domains)
            IN  IF var = NoVar
                THEN pc' = "raised" /\ UNCHANGED <<stack, ret, hashOrder>>
                ELSE \E order \in (IF hashOrder[var[1]] = <<>>
                                   THEN HashOrders(categories.values[var[1]])
                                   ELSE {hashOrder[var[1]]}) :
                        /\ hashOrder' = [hashOrder EXCEPT ![var[1]] = order]
                        /\ stack' = SetTop([Top EXCEPT
                               !.var = var,
                               !.cands = ListOf(order, Top.domains[var[1]][var[2]]),
                               !.entered = TRUE])
                        /\ UNCHANGED <<pc, ret>>
    /\ UNCHANGED <<script, num_positions, categories, constraints, result, runs, prev>>

\* One iteration of the for loop, up to the recursive call.
TryValue ==
    /\ pc = "solving"
    /\ ret = Pending
    /\ stack # <<>>
    /\ Top.entered
    /\ Top.cands # <<>>
    /\ LET category == Top.var[1]
           position == Top.var[2]
           value == Head(Top.cands)
           rest == SetTop([Top EXCEPT !.cands = Tail(Top.cands)])
           new_assignment == Extend(Top.assignment, category, position, value)
           consistent == IsConsistent(constraints, new_assignment)
           new_domains == PropagateConstraints(num_positions, categories,
                              UpdateDomains(num_positions, Top.domains,
                                            category, position, value))
       IN  IF consistent = "ValueError"
           THEN pc' = "raised" /\ UNCHANGED stack
           ELSE /\ pc' = pc
                /\ stack' = IF consistent = "True" /\ ~new_domains.wiped
                            THEN Append(rest, Frame(new_assignment, new_domains.d))
                            ELSE rest
    /\ UNCHANGED <<script, num_positions, categories, constraints, hashOrder,
                   ret, result, runs, prev>>

\* `return None` after the for loop; out of the outermost frame it is
\* solve()'s result.
ReturnNone ==
    /\ pc = "solving"
    /\ ret = Pending
    /\ stack # <<>>
    /\ Top.entered
    /\ Top.cands = <<>>
    /\ stack' = Pop
    /\ IF Len(stack) = 1
       THEN pc' = "done" /\ result' = None
       ELSE UNCHANGED <<pc, result>>
    /\ UNCHANGED <<script, num_positions, categories, constraints, hashOrder,
                   ret, runs, prev>>

\* `if result is not None: return result` in the caller's frame; out of the
\* outermost frame it is solve()'s result.
ReturnResult ==
    /\ pc = "solving"
    /\ ret # Pending
    /\ IF stack = <<>>
       THEN pc' = "done" /\ result' = ret /\ ret' = Pending /\ UNCHANGED stack
       ELSE stack' = Pop /\ UNCHANGED <<pc, result, ret>>
    /\ UNCHANGED <<script, num_positions, categories, constraints, hashOrder,
                   runs, prev>>

\* The caller is ready to call solve() again on the same puzzle.
Again ==
    /\ pc = "done"
    /\ runs < MaxRuns
    /\ pc' = "constructed"
    /\ UNCHANGED <<script, num_positions, categories, constraints, hashOrder,
                   stack, ret, result, runs, prev>>

Next ==
    \/ Construct
    \/ AddConstraint
    \/ Solve
    \/ BacktrackEnter
    \/ TryValue
    \/ ReturnNone
    \/ ReturnResult
    \/ Again

\* The generated scripts.
Init == InitScripts(GeneratedScripts)

Spec == Init /\ [][Next]_vars

\* The 3-house example, alone and with the contradictory pair of clues.
InitExample == InitScripts(ExampleScripts)

SpecExample == InitExample /\ [][Next]_vars

\* The classic 5-house puzzle.
InitEinstein == InitScripts({create_einstein_puzzle})

SpecEinstein == InitEinstein /\ [][Next]_vars

\* ---------------------------------------------------------------- web app
\* A POST /solve request is a script whose clues are the entries of the
\* constraints list: type (factory) and params.
constraint_map ==
    {"same_position", "adjacent", "immediately_right_of", "at_position",
     "middle_position", "left_of", "not_same_position"}

\* The loop over constraints_data from its i-th entry, acc the predicates
\* registered so far: an entry whose type is not in constraint_map is passed
\* over; raised when a factory call raises.
RECURSIVE RegisterFrom(_, _, _)
RegisterFrom(entries, i, acc) ==
    IF i > Len(entries) THEN [raised |-> FALSE, constraints |-> acc]
    ELSE IF entries[i].factory \in constraint_map
         THEN IF FactoryRaises(entries[i])
              THEN [raised |-> TRUE, constraints |-> acc]
              ELSE RegisterFrom(entries, i + 1, Append(acc, FactoryResult(entries[i])))
         ELSE RegisterFrom(entries, i + 1, acc)

\* solve_puzzle() from the request to its call of puzzle.solve(); an
\* exception on the way is answered with the 400 error response.
solve_puzzle ==
    /\ pc = "start"
    /\ LET registered == RegisterFrom(script.clues, 1, <<>>)
       IN  IF LengthMismatch(script.num_positions, script.categories) \/ registered.raised
           THEN /\ pc' = "rejected"
                /\ UNCHANGED <<num_positions, categories, constraints, hashOrder,
                               stack, ret, result, runs, prev>>
           ELSE /\ num_positions' = script.num_positions
                /\ categories' = script.categories
                /\ constraints' = registered.constraints
                /\ SolveStart(script.num_positions, script.categories)
    /\ UNCHANGED script

\* solve_puzzle() after puzzle.solve(): the response for a solution or for
\* None, and the 400 error response for an exception out of solve().
Respond ==
    /\ pc \in {"done", "raised"}
    /\ pc' = IF pc = "raised" THEN "rejected" ELSE "responded"
    /\ UNCHANGED <<script, num_positions, categories, constraints, hashOrder,
                   stack, ret, result, runs, prev>>

NextWeb ==
    \/ solve_puzzle
    \/ BacktrackEnter
    \/ TryValue
    \/ ReturnNone
    \/ ReturnResult
    \/ Respond

\* Constraint entries: known types, the library's at_edge, a type that no
\* factory has.
EntryPool ==
    {CallPair("same_position", "k1", "a", "k2", "x"),
     CallPair("not_same_position", "k1", "a", "k2", "x"),
     CallPair("left_of", "k1", "b", "k1", "a"),
     CallAtPosition("k1", "a", 1),
     CallMiddle("k1", "b", Len(SmallCategories.names)),
     CallAtEdge("k2", "y", "first"),
     CallPair("next_to", "k1", "a", "k2", "x")}

Requests ==
    {Script(Len(cats.values["k1"]), cats, entries) :
        cats \in {SmallCategories, MediumCategories},
        entries \in UNION {[1..k -> EntryPool] : k \in 0..MaxClues}}
        \cup {Script(Len(ShortCategories.values["k2"]), ShortCategories, <<>>)}

InitWeb == InitScripts(Requests)

SpecWeb == InitWeb /\ [][NextWeb]_vars

\* ----------------------------------------------------------- direct calls
\* A caller that calls one function of the library or of the engine on
\* arguments of its own and keeps what the call returned.  script is the
\* call (op and arguments), result the value returned.
RECURSIVE Ascending(_)
Ascending(S) == IF S = {} THEN <<>> ELSE <<Min(S)>> \o Ascending(S \ {Min(S)})

\* The dicts {position: value} over some of the n positions, with distinct
\* values of labels, inserted in ascending position.
PartialItems(n, labels) ==
    UNION {{[i \in DOMAIN Ascending(P) |-> <<Ascending(P)[i], f[Ascending(P)[i]]>>] :
                f \in {g \in [P -> labels] : \A p, q \in P : g[p] = g[q] => p = q}} :
           P \in SUBSET Positions(n)}

\* The assignments, partial or complete, over the categories from the i-th.
RECURSIVE PartialFrom(_, _, _)
PartialFrom(n, cats, i) ==
    IF i > Len(cats.names) THEN {<<>>}
    ELSE {(cats.names[i] :> items) @@ rest :
            items \in PartialItems(n, Range(cats.values[cats.names[i]])),
            rest \in PartialFrom(n, cats, i + 1)}

\* The predicates the calls of CluePool return, each on every assignment
\* over two categories of three values.
ProbeCategories ==
    Categories(<<"k1", "k2">>, ("k1" :> <<"a", "b", "c">>) @@ ("k2" :> <<"x", "y", "z">>))

PredicateProbes(cats) ==
    {[op |-> "predicate", closure |-> FactoryResult(call), assignment |-> a] :
        call \in {k \in CluePool : ~FactoryRaises(k)},
        a \in PartialFrom(Len(cats.values[cats.names[1]]), cats, 1)}

\* The complete assignments over categories of equally long value lists.
CompleteOver(cats) ==
    LET n == Len(cats.values[cats.names[1]])
    IN  {a \in PartialFrom(n, cats, 1) : IsComplete(n, cats, a)}

\* query_solution on None and on the complete assignments of two small
\* puzzles, for categories and values inside and outside the solution.
QueryProbes ==
    {[op |-> "query_solution", solution |-> sol, category |-> c, value |-> v] :
        sol \in {None}
            \cup {Returned(a) : a \in CompleteOver(SmallCategories)}
            \cup {Returned(a) : a \in CompleteOver(MediumCategories)},
        c \in {"k1", "k2", "k3"},
        v \in {"a", "c", "y", "q"}}

\* solve() as one call.  px holds what the recursion never changes: n, cats,
\* cons, the iteration order of each category's labels, and whether
\* _propagate_constraints runs (propagating = FALSE is the engine with
\* that method returning its argument).
Raised == [kind |-> "raised", assignment |-> <<>>]

Propagated(px, domains) ==
    IF px.propagating THEN PropagateConstraints(px.n, px.cats, domains)
    ELSE [wiped |-> FALSE, d |-> domains]

RECURSIVE BacktrackCall(_, _, _)
RECURSIVE BacktrackLoop(_, _, _, _, _)
\* The for loop of _backtrack over the candidates that are left.
BacktrackLoop(px, assignment, domains, var, cands) ==
    IF cands = <<>> THEN None
    ELSE LET new_assignment == Extend(assignment, var[1], var[2], Head(cands))
             consistent == IsConsistent(px.cons, new_assignment)
             new_domains == Propagated(px, UpdateDomains(px.n, domains, var[1], var[2],
                                                         Head(cands)))
             inner == BacktrackCall(px, new_assignment, new_domains.d)
         IN  IF consistent = "ValueError" THEN Raised
             ELSE IF consistent = "True" /\ ~new_domains.wiped /\ inner.kind # "none"
                  THEN inner
                  ELSE BacktrackLoop(px, assignment, domains, var, Tail(cands))

\* _backtrack(assignment, domains)
BacktrackCall(px, assignment, domains) ==
    IF IsComplete(px.n, px.cats, assignment) THEN Returned(assignment)
    ELSE LET var == SelectUnassignedVariable(px.n, px.cats, assignment, domains)
         IN  IF var = NoVar THEN Raised
             ELSE BacktrackLoop(px, assignment, domains, var,
                                ListOf(px.order[var[1]], domains[var[1]][var[2]]))

\* solve()
SolveCall(px) ==
    LET r == Propagated(px, InitialDomains(px.n, px.cats))
    IN  IF r.wiped THEN None
        ELSE BacktrackCall(px, EmptyAssignment(px.cats), r.d)

\* The domains dicts over the categories from the i-th: any set of the
\* category's labels at each position.
RECURSIVE DomainsFrom(_, _, _)
DomainsFrom(n, cats, i) ==
    IF i > Len(cats.names) THEN {<<>>}
    ELSE {(cats.names[i] :> d) @@ rest :
            d \in [Positions(n) -> SUBSET Range(cats.values[cats.names[i]])],
            rest \in DomainsFrom(n, cats, i + 1)}

ProbeConfigurations == {SmallCategories, MediumCategories}

PropagateProbes ==
    UNION {{[op |-> "propagate", num_positions |-> Len(cats.values[cats.names[1]]),
             categories |-> cats, domains |-> d] :
                d \in DomainsFrom(Len(cats.values[cats.names[1]]), cats, 1)} :
           cats \in ProbeConfigurations}

\* The iteration orders of all categories from the i-th.
RECURSIVE OrdersFrom(_, _)
OrdersFrom(cats, i) ==
    IF i > Len(cats.names) THEN {<<>>}
    ELSE {(cats.names[i] :> o) @@ rest :
            o \in HashOrders(cats.values[cats.names[i]]),
            rest \in OrdersFrom(cats, i + 1)}

\* Clue lists of up to MaxClues calls of five of the factories.
SearchClueLists ==
    LET pool == {k \in CluePool : k.factory \in {"same_position", "left_of", "at_position",
                                                 "at_edge", "one_of_positions"}}
    IN  UNION {[1..k -> pool] : k \in 0..MaxClues}

\* solve() on puzzles with these clues, under every order.
SearchProbes ==
    UNION {{[op |-> "search", num_positions |-> Len(cats.values[cats.names[1]]),
             categories |-> cats,
             constraints |-> [i \in DOMAIN clues |-> FactoryResult(clues[i])],
             order |-> o] :
                clues \in SearchClueLists,
                o \in OrdersFrom(cats, 1)} :
           cats \in ProbeConfigurations}

\* _select_unassigned_variable on every assignment, partial or complete,
\* with every family of domains.
SelectProbes(cats) ==
    LET n == Len(cats.values[cats.names[1]])
    IN  {[op |-> "select", num_positions |-> n, categories |-> cats,
          assignment |-> a, domains |-> d] :
            a \in PartialFrom(n, cats, 1), d \in DomainsFrom(n, cats, 1)}

\* The predicates on assignments of pcats, the selection on scats.
Probes(pcats, scats) ==
    PredicateProbes(pcats) \cup QueryProbes \cup PropagateProbes \cup SearchProbes
        \cup SelectProbes(scats)

InitCalls(calls) ==
    /\ script \in calls
    /\ pc = "probe"
    /\ num_positions = 0
    /\ categories = NoCategories
    /\ constraints = <<>>
    /\ hashOrder = <<>>
    /\ stack = <<>>
    /\ ret = Pending
    /\ result = Pending
    /\ runs = 0
    /\ prev = Pending

InitProbe == InitCalls(Probes(ProbeCategories, SmallCategories))

\* What every direct call leaves alone.
Untouched ==
    UNCHANGED <<script, num_positions, categories, constraints, hashOrder,
                stack, ret, runs, prev>>

\* predicate(assignment)
EvaluatePredicate ==
    /\ pc = "probe"
    /\ script.op = "predicate"
    /\ pc' = "probed"
    /\ result' = CallPredicate(script.closure, script.assignment)
    /\ Untouched

\* query_solution(solution, category, value)
EvaluateQuery ==
    /\ pc = "probe"
    /\ script.op = "query_solution"
    /\ pc' = "probed"
    /\ result' = QuerySolution(script.solution, script.category, script.value)
    /\ Untouched

\* _propagate_constraints(domains)
EvaluatePropagate ==
    /\ pc = "probe"
    /\ script.op = "propagate"
    /\ pc' = "probed"
    /\ result' = PropagateConstraints(script.num_positions, script.categories,
                                      script.domains)
    /\ Untouched

\* solve(), and solve() of the engine whose _propagate_constraints returns
\* its argument, in the same process.
EvaluateSearch ==
    /\ pc = "probe"
    /\ script.op = "search"
    /\ pc' = "probed"
    /\ LET px == [n |-> script.num_positions, cats |-> script.categories,
                  cons |-> script.constraints, order |-> script.order,
                  propagating |-> TRUE]
       IN  result' = [propagated |-> SolveCall(px),
                      plain |-> SolveCall([px EXCEPT !.propagating = FALSE])]
    /\ Untouched

\* _select_unassigned_variable(assignment, domains)
EvaluateSelect ==
    /\ pc = "probe"
    /\ script.op = "select"
    /\ pc' = "probed"
    /\ result' = SelectUnassignedVariable(script.num_positions, script.categories,
                                          script.assignment, script.domains)
    /\ Untouched

NextProbe ==
    \/ EvaluateSelect
    \/ EvaluatePredicate
    \/ EvaluateQuery
    \/ EvaluatePropagate
    \/ EvaluateSearch

SpecProbe == InitProbe /\ [][NextProbe]_vars

\* ------------------------------------------------------------- scheduling
\* The scripts of at most one clue, and the direct calls of
\* _propagate_constraints.  A script is one sequential thread: whenever it
\* has a next step it takes it.
TerminatingScripts == {g \in GeneratedScripts : Len(g.clues) <= 1}

InitTerminating == InitScripts(TerminatingScripts) \/ InitCalls(PropagateProbes)

NextTerminating == Next \/ EvaluatePropagate

SpecTerminating ==
    InitTerminating /\ [][NextTerminating]_vars /\ WF_vars(Next)

\* ================================================================== claims
\* The complete assignments of a puzzle: in every category one distinct
\* value of the category's list per position.
Items(f) == [i \in DOMAIN f |-> <<i - 1, f[i]>>]

Injective(f) == \A i, j \in DOMAIN f : f[i] = f[j] => i = j

RECURSIVE CompleteFrom(_, _, _)
CompleteFrom(n, cats, i) ==
    IF i > Len(cats.names) THEN {<<>>}
    ELSE {(cats.names[i] :> Items(f)) @@ rest :
            f \in {g \in [1..n -> Range(cats.values[cats.names[i]])] : Injective(g)},
            rest \in CompleteFrom(n, cats, i + 1)}

\* Those on which every predicate of cons returns True.
Satisfying(n, cats, cons) ==
    {a \in CompleteFrom(n, cats, 1) :
        \A i \in DOMAIN cons : CallPredicate(cons[i], a) = "True"}

Solved == pc = "done" /\ result.kind = "assignment"

\* C1: whenever solve() returns an assignment, every registered constraint
\* predicate returns True on that assignment.
C1_ConstraintsSatisfied ==
    Solved => \A i \in DOMAIN constraints :
                  CallPredicate(constraints[i], result.assignment) = "True"

\* A solved puzzle with two registered clues, one of them an at_position
\* clue whose value was placed.
C1_Witness ==
    /\ Solved
    /\ Len(constraints) = 2
    /\ \E i \in DOMAIN constraints :
          /\ constraints[i].kind = "at_position"
          /\ FindPos(result.assignment, constraints[i].category1,
                     constraints[i].value1) # NoPos

\* C2: whenever solve() returns an assignment, every declared category maps
\* exactly the positions 0..num_positions-1, one to one, onto the category's
\* value list.
C2_Bijection ==
    Solved => \A i \in DOMAIN categories.names :
                 LET c == categories.names[i]
                     items == result.assignment[c]
                 IN  /\ c \in DOMAIN result.assignment
                     /\ Len(items) = num_positions
                     /\ {items[k][1] : k \in DOMAIN items} = Positions(num_positions)
                     /\ {items[k][2] : k \in DOMAIN items} = Range(categories.values[c])
                     /\ \A k, l \in DOMAIN items : items[k][2] = items[l][2] => k = l

\* A solved puzzle of three positions.
C2_Witness == Solved /\ num_positions = 3 /\ Len(result.assignment["k1"]) = 3

\* C3: when solve() has ended on a puzzle that has a complete assignment
\* satisfying every registered constraint, it has returned an assignment:
\* it neither returned None nor raised.
C3_Complete ==
    (pc \in {"done", "raised"}
        /\ Satisfying(num_positions, categories, constraints) # {})
    => Solved

\* A solved puzzle with clues that leave exactly one complete assignment.
C3_Witness ==
    /\ Solved
    /\ constraints # <<>>
    /\ Cardinality(Satisfying(num_positions, categories, constraints)) = 1

\* C4: a second solve() on the same puzzle definition returns what the
\* first returned.
C4_Deterministic == (pc = "done" /\ runs >= 2) => result = prev

\* C5 as claimed: the example puzzle has exactly one satisfying complete
\* assignment, with {English, red, fox, tea} at position 0 and {Spanish,
\* green, dog, coffee} at position 1.
ExampleBuilt ==
    /\ script = create_example_puzzle
    /\ pc = "constructed"
    /\ Len(constraints) = Len(script.clues)

HouseIs(a, position, nationality, color, pet, drink) ==
    /\ ValueAt(a, "nationality", position) = nationality
    /\ ValueAt(a, "color", position) = color
    /\ ValueAt(a, "pet", position) = pet
    /\ ValueAt(a, "drink", position) = drink

C5_AsClaimed ==
    ExampleBuilt =>
        LET sols == Satisfying(num_positions, categories, constraints)
        IN  /\ Cardinality(sols) = 1
            /\ \A a \in sols : /\ HouseIs(a, 0, "English", "red", "fox", "tea")
                               /\ HouseIs(a, 1, "Spanish", "green", "dog", "coffee")

\* C5 amended: the example puzzle has exactly two satisfying complete
\* assignments; both hold {ivory, tea} at position 0, {English, red, snail,
\* water} at position 1 and {green, coffee} at position 2, and they differ
\* in which of positions 0 and 2 holds {Spanish, dog} and which {Japanese,
\* fox}.
C5_TwoSolutions ==
    ExampleBuilt =>
        LET sols == Satisfying(num_positions, categories, constraints)
        IN  /\ Cardinality(sols) = 2
            /\ \A a \in sols :
                  /\ HouseIs(a, 1, "English", "red", "snail", "water")
                  /\ \/ /\ HouseIs(a, 0, "Spanish", "ivory", "dog", "tea")
                        /\ HouseIs(a, 2, "Japanese", "green", "fox", "coffee")
                     \/ /\ HouseIs(a, 0, "Japanese", "ivory", "fox", "tea")
                        /\ HouseIs(a, 2, "Spanish", "green", "dog", "coffee")
            /\ \E a \in sols : ValueAt(a, "nationality", 0) = "Spanish"
            /\ \E a \in sols : ValueAt(a, "nationality", 0) = "Japanese"

\* The example puzzle with its six clues registered.
C5_Witness == ExampleBuilt /\ constraints[6].kind = "adjacent"

ExampleSolved == script = create_example_puzzle /\ pc = "done"

\* C6 as claimed: on the example puzzle solve() returns an assignment in
\* which the coffee drinker and the dog owner are both the Spanish.
C6_AsClaimed ==
    ExampleSolved =>
        /\ result.kind = "assignment"
        /\ QuerySolution(result, "drink", "coffee").kind = "row"
        /\ QuerySolution(result, "drink", "coffee").row["nationality"] = "Spanish"
        /\ QuerySolution(result, "pet", "dog").kind = "row"
        /\ QuerySolution(result, "pet", "dog").row["nationality"] = "Spanish"

\* C6 amended: on the example puzzle solve() returns an assignment in which
\* the dog owner is the Spanish and the coffee drinker lives in the green
\* house and is the Spanish or the Japanese: the Japanese exactly when the
\* Spanish is at position 0.
C6_DogOwnerSpanish ==
    ExampleSolved =>
        /\ result.kind = "assignment"
        /\ QuerySolution(result, "pet", "dog").kind = "row"
        /\ QuerySolution(result, "pet", "dog").row["nationality"] = "Spanish"
        /\ QuerySolution(result, "drink", "coffee").kind = "row"
        /\ QuerySolution(result, "drink", "coffee").row["color"] = "green"
        /\ QuerySolution(result, "drink", "coffee").row["nationality"] =
              IF FindPos(result.assignment, "nationality", "Spanish") = 0
              THEN "Japanese" ELSE "Spanish"

\* The example puzzle solved with the Japanese as the coffee drinker.
C6_Witness ==
    /\ ExampleSolved
    /\ QuerySolution(result, "drink", "coffee").kind = "row"
    /\ QuerySolution(result, "drink", "coffee").row["nationality"] = "Japanese"

\* C7: on the classic 5-house puzzle solve() returns an assignment, and the
\* nationality at the position of the fish is German.
C7_FishOwnerGerman ==
    (script = create_einstein_puzzle /\ pc \in {"done", "raised"}) =>
        /\ Solved
        /\ QuerySolution(result, "pet", "fish").kind = "row"
        /\ QuerySolution(result, "pet", "fish").row["nationality"] = "German"

\* The 5-house puzzle solved with its 15 clues registered.
C7_Witness ==
    /\ script = create_einstein_puzzle
    /\ Solved
    /\ Len(constraints) = 15
    /\ FindPos(result.assignment, "pet", "fish") # NoPos

Contradictory == script \in {ContradictoryPuzzle, ContradictoryExample}

\* C8: with English forced to position 0 and to position 1, solve() does not
\* raise and returns None, never an assignment.
C8_ContradictionGivesNone ==
    Contradictory => /\ pc # "raised"
                     /\ pc # "config_error"
                     /\ pc = "done" => result = None

\* The 3-house categories with only the two at_position clues, solved to None
\* after the search has run.
C8_Witness ==
    /\ script = ContradictoryPuzzle
    /\ pc = "done"
    /\ result = None
    /\ hashOrder["nationality"] # <<>>

\* A category of the script whose list length differs from num_positions.
WrongLength ==
    \E c \in Range(script.categories.names) :
        Len(script.categories.values[c]) # script.num_positions

\* C9: construction with a category list of the wrong length ends in the
\* configuration error with no puzzle: nothing registered, nothing solved;
\* with every list of the right length it succeeds.
C9_ConstructionValidates ==
    pc # "start" =>
        IF WrongLength
        THEN /\ pc = "config_error"
             /\ categories = NoCategories
             /\ constraints = <<>>
             /\ runs = 0
             /\ stack = <<>>
             /\ result = Pending
        ELSE /\ categories = script.categories
             /\ num_positions = script.num_positions

\* Construction refused for a category with 4 values and num_positions = 3.
C9_Witness ==
    /\ pc = "config_error"
    /\ script.num_positions = 3
    /\ Len(script.categories.values["k1"]) = 4

\* C10 as claimed: at_edge with an edge other than first, last, either
\* raises at the factory call, so no such predicate is ever registered.
C10_AsClaimed ==
    \A i \in DOMAIN constraints :
        constraints[i].kind = "at_edge" =>
            constraints[i].edge \in {"first", "last", "either"}

\* C11 as claimed: once the constraints are registered, solve() ends with an
\* assignment or None and never with an exception.
C11_AsClaimed == pc # "raised"

\* The edge test of at_edge on a puzzle of n positions.
AtEdgeOf(edge, pos, n) ==
    \/ edge \in {"first", "either"} /\ pos = 0
    \/ edge \in {"last", "either"} /\ pos = n - 1

\* C12 as claimed: on every assignment the search builds, partial or
\* complete, an at_edge predicate whose value is assigned at p returns True
\* iff p is at the requested edge of 0..num_positions-1.
C12_AsClaimed ==
    \A k \in DOMAIN stack : \A i \in DOMAIN constraints :
        LET c == constraints[i]
            pos == FindPos(stack[k].assignment, c.category1, c.value1)
        IN  (c.kind = "at_edge" /\ c.edge \in {"first", "last", "either"} /\ pos # NoPos)
            => (at_edge_call(c, stack[k].assignment) = "True"
                    <=> AtEdgeOf(c.edge, pos, num_positions))


\* C13 (open-world evaluation): a predicate of any of the nine factories
\* returns True on every assignment in which a value it refers to is not
\* placed, whatever the assignment holds otherwise.
NotPlaced(assignment, category, value) ==
    \A c \in DOMAIN assignment :
        c = category => \A i \in DOMAIN assignment[c] : assignment[c][i][2] # value

PairKinds ==
    {"same_position", "adjacent", "left_of", "immediately_right_of", "not_same_position"}

RefersToUnplaced(c, assignment) ==
    \/ NotPlaced(assignment, c.category1, c.value1)
    \/ c.kind \in PairKinds /\ NotPlaced(assignment, c.category2, c.value2)

C13_OpenWorld ==
    (pc = "probed" /\ script.op = "predicate"
        /\ RefersToUnplaced(script.closure, script.assignment))
    => result = "True"

\* at_position has been called on an assignment that does not place its
\* value while another value holds the target position.
C13_Witness ==
    /\ pc = "probed" /\ script.op = "predicate"
    /\ script.closure.kind = "at_position"
    /\ NotPlaced(script.assignment, script.closure.category1, script.closure.value1)
    /\ script.closure.position \in Keys(script.assignment, script.closure.category1)
    /\ result = "True"


\* value sits at position p of category in the assignment sol.
Occurs(sol, category, value, p) ==
    /\ category \in DOMAIN sol
    /\ \E i \in DOMAIN sol[category] : sol[category][i] = <<p, value>>

QueryExpected(q, r) ==
    LET sol == q.solution.assignment
        at == {p \in 0..Len(ProbeCategories.names) + 1 : Occurs(sol, q.category, q.value, p)}
    IN  IF q.solution.kind = "assignment" /\ at # {}
        THEN /\ r.kind = "row"
             /\ DOMAIN r.row = DOMAIN sol
             /\ \E p \in at : \A c \in DOMAIN sol : Occurs(sol, c, r.row[c], p)
        ELSE r = NotFound

\* C14: query_solution returns the row of the position where the value
\* occurs, one entry per category of the solution; it returns None when the
\* solution is None, the category is not in it or the value occurs nowhere
\* in the category; the solution is the same after the call.
C14_QuerySolution ==
    [][(pc' = "probed" /\ script.op = "query_solution")
        => (script' = script /\ QueryExpected(script, result'))]_vars

\* A query for a value of the solution has returned a row with one entry
\* for each of the two categories.
C14_Witness ==
    /\ pc = "probed" /\ script.op = "query_solution"
    /\ script.solution.kind = "assignment"
    /\ script.category = "k1" /\ script.value = "a"
    /\ result.kind = "row"
    /\ DOMAIN result.row = {"k1", "k2"}
    /\ result.row["k1"] = "a"


\* The assignment a takes each of its values from the domains d.
Within(a, d) ==
    \A c \in DOMAIN a : \A i \in DOMAIN a[c] : a[c][i][2] \in d[c][a[c][i][1]]

\* C15 (propagation soundness): every complete one-value-per-position
\* assignment that lies within the input domains lies within the domains
\* _propagate_constraints returns, and the call does not return None when
\* there is one; and solve() returns the same with propagation as without.
C15_PropagationSound ==
    /\ (pc = "probed" /\ script.op = "propagate")
        => \A a \in CompleteOver(script.categories) :
              Within(a, script.domains) => ~result.wiped /\ Within(a, result.d)
    /\ (pc = "probed" /\ script.op = "search") => result.propagated = result.plain

\* Propagation has removed values from domains that admit a complete
\* assignment.
C15_Witness ==
    /\ pc = "probed" /\ script.op = "propagate"
    /\ \E a \in CompleteOver(script.categories) : Within(a, script.domains)
    /\ ~result.wiped
    /\ result.d # script.domains


\* C16 as claimed: solve() is never run for a request whose constraints
\* list has an entry of a type that is not a known constraint type.
C16_AsClaimed ==
    (\E i \in DOMAIN script.clues : script.clues[i].factory = "next_to") => runs = 0


\* The frames that stay on the stack keep the assignment and the domains
\* they were called with.
FramesKept ==
    \A i \in DOMAIN stack :
        i \in DOMAIN stack' =>
            /\ stack'[i].assignment = stack[i].assignment
            /\ stack'[i].domains = stack[i].domains

\* Every domain of d1 is included in the domain of d0 at the same place.
Shrunk(d1, d0) ==
    /\ DOMAIN d1 = DOMAIN d0
    /\ \A c \in DOMAIN d1 :
          DOMAIN d1[c] = DOMAIN d0[c] /\ \A p \in DOMAIN d1[c] : d1[c][p] \subseteq d0[c][p]

\* A frame that is pushed has the caller's assignment with one candidate of
\* the caller's variable added, and domains within the caller's (within the
\* full domains, for the outermost frame).
PushedWithin ==
    Len(stack') = Len(stack) + 1 =>
        LET callee == stack'[Len(stack')]
        IN  IF stack = <<>>
            THEN Shrunk(callee.domains, InitialDomains(num_positions, categories))
            ELSE /\ Shrunk(callee.domains, Top.domains)
                 /\ \E v \in Top.domains[Top.var[1]][Top.var[2]] :
                       callee.assignment = Extend(Top.assignment, Top.var[1], Top.var[2], v)

\* C17 (branch isolation): trying a candidate, with everything the recursive
\* call does, leaves the frame's own assignment and domains as they were, so
\* every later candidate starts from what the frame received; and no domain
\* gains a value, in propagation or in search.
C17_BranchIsolation == [][FramesKept /\ PushedWithin]_vars

\* The outermost frame is at its second candidate, in a new recursive call,
\* after the whole recursive call for its first candidate returned None.
C17_Witness ==
    /\ pc = "solving"
    /\ script.clues = <<CallPair("left_of", "k1", "b", "k1", "a")>>
    /\ categories = MediumCategories
    /\ Len(stack) > 1
    /\ Len(stack[1].cands) = 1
    /\ stack[1].assignment = EmptyAssignment(categories)
    /\ Head(hashOrder["k1"]) = "a"


\* The (category index, position) pairs that the assignment a leaves open.
Unassigned(n, cats, a) ==
    {u \in (DOMAIN cats.names) \X Positions(n) :
        \A i \in DOMAIN a[cats.names[u[1]]] : a[cats.names[u[1]]][i][1] # u[2]}

\* C18 (MRV selection): on an incomplete assignment the pair selected is
\* unassigned, no unassigned pair has a smaller domain, and every other
\* unassigned pair with a domain of the same size comes later in category
\* declaration order, or in the same category at a higher position.
C18_MinimumRemainingValues ==
    (pc = "probed" /\ script.op = "select") =>
        LET cats == script.categories
            open == Unassigned(script.num_positions, cats, script.assignment)
            size(u) == Cardinality(script.domains[cats.names[u[1]]][u[2]])
        IN  open # {} =>
                \E u \in open :
                    /\ result = <<cats.names[u[1]], u[2]>>
                    /\ \A w \in open :
                          /\ size(u) <= size(w)
                          /\ (size(w) = size(u) /\ w # u)
                                => (u[1] < w[1] \/ (u[1] = w[1] /\ u[2] < w[2]))

\* The selection has passed over an assigned pair and an earlier pair with
\* a larger domain, and has taken the first of two pairs with equally small
\* domains.
C18_Witness ==
    /\ pc = "probed" /\ script.op = "select"
    /\ script.assignment["k1"] = <<<<0, "a">>>>
    /\ script.assignment["k2"] = <<>>
    /\ Cardinality(script.domains["k1"][1]) > 1
    /\ Cardinality(script.domains["k2"][0]) = 1
    /\ Cardinality(script.domains["k2"][1]) = 1
    /\ result = <<"k2", 0>>


\* The number of values in all domains.
RECURSIVE Sum(_, _)
Sum(f, S) == IF S = {} THEN 0 ELSE LET x == CHOOSE y \in S : TRUE
                                   IN  f[x] + Sum(f, S \ {x})

Size(d) == Sum([c \in DOMAIN d |-> Sum([p \in DOMAIN d[c] |-> Cardinality(d[c][p])],
                                       DOMAIN d[c])], DOMAIN d)

\* A pass of the propagation loop that changes the domains removes values.
PassShrinks ==
    (pc = "probed" /\ script.op = "propagate") =>
        LET r == PropagatePass(script.num_positions, script.categories, script.domains)
        IN  (~r.wiped /\ r.d # script.domains)
                => Shrunk(r.d, script.domains) /\ Size(r.d) < Size(script.domains)

\* The i-th frame of the recursion has i - 1 pairs committed, so there are
\* at most num_positions * (number of categories) recursive calls inside
\* the outermost one.
DepthBounded ==
    /\ \A i \in DOMAIN stack :
          Sum([c \in DOMAIN stack[i].assignment |-> Len(stack[i].assignment[c])],
              DOMAIN stack[i].assignment) = i - 1
    /\ stack # <<>> => Len(stack) - 1 <= num_positions * Len(categories.names)

PredicatesReturn ==
    \A i \in DOMAIN constraints :
        constraints[i].kind = "at_edge" => constraints[i].edge \in {"first", "last", "either"}

\* C19 (termination): with predicates that return, a solve() that has
\* started returns; a propagation pass that changes the domains strictly
\* shrinks them; every recursive call of _backtrack has one more pair
\* committed than its caller, so the recursion is at most
\* num_positions * (number of categories) calls deep.
C19_Termination ==
    /\ (pc = "solving" /\ PredicatesReturn) ~> (pc = "done")
    /\ [][(PassShrinks /\ DepthBounded)']_vars

\* A search is as deep as it can get, with every pair committed.
C19_Witness ==
    /\ pc = "solving"
    /\ stack # <<>>
    /\ Len(stack) - 1 = num_positions * Len(categories.names)
    /\ Len(categories.names) > 1


\* The domains of a frame are those its assignment determines: {value} at a
\* committed place, the category's list without the values committed in the
\* category at every other place.
ShapedBy(a, d) ==
    \A c \in DOMAIN d : \A p \in DOMAIN d[c] :
        d[c][p] = IF p \in Keys(a, c) THEN {ValueAt(a, c, p)}
                  ELSE Range(categories.values[c]) \ {a[c][i][2] : i \in DOMAIN a[c]}

\* Propagation returns the domains it is given: on the initial domains and
\* after _update_domains for every candidate of the running frame (each
\* frame is the running one when it enters its loop).
PropagationIdle ==
    /\ pc \in {"constructed", "solving", "done", "raised"}
        => LET d0 == InitialDomains(num_positions, categories)
           IN  PropagateConstraints(num_positions, categories, d0)
                   = [wiped |-> FALSE, d |-> d0]
    /\ (stack # <<>> /\ Top.entered) =>
          \A v \in Top.domains[Top.var[1]][Top.var[2]] :
              LET d1 == UpdateDomains(num_positions, Top.domains, Top.var[1], Top.var[2], v)
              IN  PropagateConstraints(num_positions, categories, d1)
                      = [wiped |-> FALSE, d |-> d1]

\* Positions are committed in ascending order, and a category is begun only
\* when every category declared before it is full.
CommittedInOrder(a) ==
    \A j \in DOMAIN categories.names :
        LET items == a[categories.names[j]]
        IN  /\ \A i \in DOMAIN items : items[i][1] = i - 1
            /\ items # <<>> =>
                  \A h \in 1..(j - 1) : Len(a[categories.names[h]]) = num_positions

\* C20 (domain shape): in every frame of every search each committed place
\* has the domain {committed value} and every other place the category's
\* list minus the values committed in the category, whatever constraints are
\* registered; _propagate_constraints changes no domain and never returns
\* None; the pairs are committed category by category in declaration order,
\* positions ascending.
C20_DomainShape ==
    /\ \A k \in DOMAIN stack :
          /\ ShapedBy(stack[k].assignment, stack[k].domains)
          /\ CommittedInOrder(stack[k].assignment)
    /\ PropagationIdle

\* With a constraint registered, a frame has the first category full and
\* the second begun, and a candidate left to try.
C20_Witness ==
    /\ pc = "solving"
    /\ constraints # <<>>
    /\ Len(categories.names) > 1
    /\ stack # <<>>
    /\ Len(Top.assignment[categories.names[1]]) = num_positions
    /\ Len(Top.assignment[categories.names[2]]) = 1
    /\ Top.entered
    /\ Top.cands # <<>>

====
